---- MODULE Spec2Model ----
(***************************************************************************)
(* A model of pygios.Gios (custom_components/gios/pygios/__init__.py): the *)
(* station reader that resolves a station, fetches its sensor list, the    *)
(* latest value of every sensor and the index levels, and merges them into *)
(* the mapping self._data.                                                 *)
(*                                                                         *)
(* update() is a coroutine: it suspends at every `await self._async_get`.  *)
(* The model has one action per segment of update() between two awaits;    *)
(* pc names the await the coroutine is suspended at.                       *)
(*                                                                         *)
(* JSON documents and Python values are tagged records: Null, Num(n),      *)
(* Str(s), List(seq), Obj(function).  A Python str is a sequence of        *)
(* one-character strings, so that lower() and replace() are computed.     *)
(* A raised exception is the value Raise(name); the subscript operators    *)
(* propagate it, as the evaluation of a Python expression does.            *)
(***************************************************************************)
EXTENDS Integers, Sequences, FiniteSets, TLC

\* ------------------------------------------------------------ bounds
\* longest directory listing and sensor list the upstream sends
MaxStations == 1
MaxSensors == 2

\* ------------------------------------------------------------ constants
ATTR_AQI == <<"A", "Q", "I">>
ATTR_ID == "id"
ATTR_INDEX == "index"
ATTR_NAME == "name"
ATTR_VALUE == "value"
HTTP_OK == 200
\* update() reads values[0] and values[1] of a sensor document, nothing beyond
SlotsRead == 2
URL_INDEXES == "aqindex/getIndex"
URL_SENSOR == "data/getData"
URL_STATION == "station/sensors"
URL_STATIONS == "station/findAll"

\* ------------------------------------------------------------ Python values
Null == [t |-> "null"]
Num(n) == [t |-> "num", v |-> n]
Str(s) == [t |-> "str", v |-> s]
List(s) == [t |-> "list", v |-> s]
Obj(f) == [t |-> "obj", v |-> f]
Raise(e) == [t |-> "exc", v |-> e]

IsExc(x) == x.t = "exc"

\* bool(x): None, 0, "", [] and {} are false
Truthy(x) ==
    CASE x.t = "null" -> FALSE
      [] x.t = "num" -> x.v # 0
      [] x.t = "str" -> Len(x.v) > 0
      [] x.t = "list" -> Len(x.v) > 0
      [] x.t = "obj" -> DOMAIN x.v # {}
      [] OTHER -> FALSE

\* x[k] for a string key k
Item(x, k) ==
    CASE x.t = "exc" -> x
      [] x.t = "obj" -> IF k \in DOMAIN x.v THEN x.v[k] ELSE Raise("KeyError")
      [] OTHER -> Raise("TypeError")

\* x[n] for an integer n >= 0 (Python counts from 0)
Index(x, n) ==
    CASE x.t = "exc" -> x
      [] x.t = "list" -> IF n + 1 \in DOMAIN x.v THEN x.v[n + 1] ELSE Raise("IndexError")
      [] x.t = "obj" -> Raise("KeyError")
      [] OTHER -> Raise("TypeError")

LowerChar(c) ==
    CASE c = "A" -> "a" [] c = "B" -> "b" [] c = "D" -> "d" [] c = "G" -> "g"
      [] c = "I" -> "i" [] c = "L" -> "l" [] c = "M" -> "m" [] c = "N" -> "n"
      [] c = "O" -> "o" [] c = "P" -> "p" [] c = "Q" -> "q" [] c = "S" -> "s"
      [] OTHER -> c

\* str.lower() on a sequence of characters
lower(s) == [n \in 1..Len(s) |-> LowerChar(s[n])]

\* replace with every character kept: the period stays in the key
replace_KeepsPeriod(s, old) == s

\* str.replace(old, "") for a one-character old
replace(s, old) == SelectSeq(s, LAMBDA c : c # old)

\* Lower with the case kept: the name is stored as the upstream spells it
Lower_KeepsCase(x) ==
    CASE x.t = "exc" -> x
      [] x.t = "str" -> x
      [] OTHER -> Raise("AttributeError")

\* x.lower() for a Python value x
Lower(x) ==
    CASE x.t = "exc" -> x
      [] x.t = "str" -> Str(lower(x.v))
      [] OTHER -> Raise("AttributeError")

\* ATTR_INDEX_LEVEL.format(s)
ATTR_INDEX_LEVEL(s) == s \o <<"I", "n", "d", "e", "x", "L", "e", "v", "e", "l">>

\* ------------------------------------------------------------ the mapping
\* A Python dict keeps insertion order: a sequence of <<key, record>> pairs.
Empty == <<>>

Keys(d) == {d[n][1] : n \in DOMAIN d}

Pos(d, k) == CHOOSE n \in DOMAIN d : d[n][1] = k

\* d[k] of a key that is present
Get(d, k) == d[Pos(d, k)][2]

\* d[k] = r : a present key keeps its place, a new key goes last
Set(d, k, r) ==
    IF k \in Keys(d) THEN [d EXCEPT ![Pos(d, k)] = <<k, r>>] ELSE Append(d, <<k, r>>)

\* d[k][f] = x
SetField(d, k, f, x) == Set(d, k, (f :> x) @@ Get(d, k))

\* ------------------------------------------------------------ the upstream
\* The station the reader is configured for (the constructor's station_id).
station_id == 1

\* What session.get(url) does: it raises ClientError, or it answers with a
\* status and a JSON body.
ClientError == [kind |-> "ClientError"]
Reply(status, json) == [kind |-> "reply", status |-> status, json |-> json]
BadStatus == Reply(HTTP_OK + 300, Null)
Ok(json) == Reply(HTTP_OK, json)

BoundedSeq(S, n) == UNION {[1..m -> S] : m \in 0..n}

PM10 == <<"P", "M", "1", "0">>
PM25 == <<"P", "M", "2", ".", "5">>
Good == <<"G", "o", "o", "d">>
Bad == <<"B", "a", "d">>

\* GET station/findAll: entries {id, stationName, gegrLat, gegrLon}
StationEntries ==
    { Obj([id |-> Num(station_id), stationName |-> Str(<<"S">>),
           gegrLat |-> Str(<<"5", "0">>), gegrLon |-> Str(<<"1", "9">>)]),
      Obj([id |-> Num(station_id + 1), stationName |-> Str(<<"O">>),
           gegrLat |-> Str(<<"5", "2">>), gegrLon |-> Str(<<"2", "1">>)]),
      Obj([id |-> Num(station_id), stationName |-> Null,
           gegrLat |-> Str(<<"5", "0">>), gegrLon |-> Str(<<"1", "9">>)]),
      Obj([id |-> Num(station_id), stationName |-> Str(<<"S">>),
           gegrLat |-> Str(<<"5", "0">>)]) }

\* GET station/sensors/{station_id}: entries {id, param: {paramCode, paramName}}
Sensor(id, code) ==
    Obj([id |-> Num(id), param |-> Obj([paramCode |-> Str(code), paramName |-> Str(code)])])

SensorEntries ==
    { Sensor(10, PM10), Sensor(25, PM25),
      Obj([param |-> Obj([paramCode |-> Str(PM10), paramName |-> Str(PM10)])]) }

\* GET data/getData/{sensor id}: {values: [{value}, ...]}
ValueEntries == { Obj([value |-> Null]), Obj([value |-> Num(0)]), Obj([value |-> Num(42)]) }

\* GET aqindex/getIndex/{station_id}: {"<code>IndexLevel": {indexLevelName}, ...}
Level(name) == Obj([indexLevelName |-> Str(name)])

IndexKeys == { ATTR_INDEX_LEVEL(<<"p", "m", "1", "0">>), ATTR_INDEX_LEVEL(<<"p", "m", "2", "5">>),
               ATTR_INDEX_LEVEL(<<"s", "t">>) }

FullIndexes == [k \in IndexKeys |-> IF k = ATTR_INDEX_LEVEL(<<"s", "t">>) THEN Level(Bad) ELSE Level(Good)]

\* the complete document, and every document with one fault: a key missing, or
\* an entry that is null, that lacks indexLevelName, or whose name is null
IndexDocs ==
    {Obj(FullIndexes)}
    \cup {Obj([k \in IndexKeys \ {m} |-> FullIndexes[k]]) : m \in IndexKeys}
    \cup {Obj([FullIndexes EXCEPT ![m] = e]) :
            m \in IndexKeys, e \in {Null, Obj(<<>>), Obj([indexLevelName |-> Null])}}

Bodies(endpoint) ==
    CASE endpoint = URL_STATIONS -> {List(s) : s \in BoundedSeq(StationEntries, MaxStations)}
      [] endpoint = URL_STATION -> {List(s) : s \in BoundedSeq(SensorEntries, MaxSensors)}
      [] endpoint = URL_SENSOR ->
            {Obj(<<>>)} \cup {Obj([values |-> List(s)]) : s \in BoundedSeq(ValueEntries, SlotsRead)}
      [] endpoint = URL_INDEXES -> IndexDocs

\* every answer the upstream can give to a request: a connection error, a
\* non-success status, an empty body (resp.json() is None), or a document
Responses(url) == {ClientError, BadStatus, Ok(Null)} \cup {Ok(b) : b \in Bodies(url[1])}

\* ------------------------------------------------------------ the reader
VARIABLES
    station_name, latitude, longitude,  \* the cached station metadata
    data,                               \* self._data
    pc,                                 \* "idle", or the await update() is suspended at
    i,                                  \* position of `for sensor in self._data` (lines 70-87)
    outcome,                            \* how the last update() ended
    reqs,                               \* the URLs requested in this cycle, in order
    replaced,                           \* <<>> while self._data names the dict it named when update()
                                        \* was called; <<that dict>> once update() has bound a new one
    upstream,                           \* the answers the upstream has given since it last changed
    epochCycles,                        \* cycles begun since the upstream last changed (capped at 2)
    before,                             \* the mapping when this cycle began
    atRequest,                          \* the mapping when the last request was issued
    dirMatched                          \* a directory answer has listed station_id

vars == <<station_name, latitude, longitude, data, pc, i, outcome, reqs, replaced,
          upstream, epochCycles, before, atRequest, dirMatched>>

\* the reader's own fields, as the record the steps below compute
Reader ==
    [station_name |-> station_name, latitude |-> latitude, longitude |-> longitude,
     data |-> data, pc |-> pc, i |-> i, outcome |-> outcome, reqs |-> reqs,
     replaced |-> replaced]

Url(endpoint, arg) == <<endpoint, arg>>

PyEq(a, b) == a.t = b.t /\ (a.t = "null" \/ a.v = b.v)

\* update() returns, or an exception leaves it; its loop variable is gone
Return(s) == [s EXCEPT !.pc = "idle", !.outcome = "returned", !.i = 0]
Throw(s, e) == [s EXCEPT !.pc = "idle", !.outcome = e, !.i = 0]
Await(s, where, url) == [s EXCEPT !.pc = where, !.reqs = Append(@, url)]

\* self._data = {}: the name is bound to a new, empty dict; the dict it named
\* keeps what it held
Clear(s) == [s EXCEPT !.replaced = <<s.data>>, !.data = Empty]

\* _async_get: the JSON body, None after a ClientError; ApiError (not a
\* ClientError) leaves the function
async_get(r) ==
    IF r.kind = "ClientError" THEN Null
    ELSE IF r.status # HTTP_OK THEN Raise("ApiError")
    ELSE r.json

\* the next position after n of `for sensor in self._data` whose key is not
\* ATTR_AQI; 0 when the loop is over
NextSensor(d, n) ==
    IF \E m \in DOMAIN d : m > n /\ d[m][1] # ATTR_AQI
    THEN CHOOSE m \in DOMAIN d :
            /\ m > n /\ d[m][1] # ATTR_AQI
            /\ \A q \in DOMAIN d : (q > n /\ d[q][1] # ATTR_AQI) => m <= q
    ELSE 0

\* Continue with the loop left after its first sensor: the index levels are
\* requested while later sensors have no value yet
Continue_FirstSensorOnly(s, n) ==
    LET m == IF n = 0 THEN NextSensor(s.data, n) ELSE 0 IN
    IF m = 0 THEN Await([s EXCEPT !.i = 0], "get_indexes", Url(URL_INDEXES, station_id))
    ELSE LET id == IF ATTR_ID \in DOMAIN s.data[m][2] THEN s.data[m][2][ATTR_ID]
                   ELSE Raise("KeyError") IN
         IF IsExc(id) THEN Throw(s, id.v)
         ELSE Await([s EXCEPT !.i = m], "get_sensor", Url(URL_SENSOR, id.v))

\* lines 70-72 and 89: go on to the next sensor's request, or, after the last
\* one, to the request of the index levels
Continue(s, n) ==
    LET m == NextSensor(s.data, n) IN
    IF m = 0 THEN Await([s EXCEPT !.i = 0], "get_indexes", Url(URL_INDEXES, station_id))
    ELSE LET id == IF ATTR_ID \in DOMAIN s.data[m][2] THEN s.data[m][2][ATTR_ID]
                   ELSE Raise("KeyError") IN
         IF IsExc(id) THEN Throw(s, id.v)
         ELSE Await([s EXCEPT !.i = m], "get_sensor", Url(URL_SENSOR, id.v))

\* lines 46-50: for station in stations
RECURSIVE ForStations(_, _, _)
ForStations(stations, n, s) ==
    IF n > Len(stations) THEN s
    ELSE LET station == stations[n]
             id == Item(station, ATTR_ID)
             lat == Item(station, "gegrLat")
             lon == Item(station, "gegrLon")
             name == Item(station, "stationName")
         IN  IF IsExc(id) THEN Throw(s, id.v)
             ELSE IF ~PyEq(id, Num(station_id)) THEN ForStations(stations, n + 1, s)
             ELSE IF IsExc(lat) THEN Throw(s, lat.v)
             ELSE IF IsExc(lon) THEN Throw([s EXCEPT !.latitude = lat], lon.v)
             ELSE IF IsExc(name) THEN Throw([s EXCEPT !.latitude = lat, !.longitude = lon], name.v)
             ELSE ForStations(stations, n + 1,
                    [s EXCEPT !.latitude = lat, !.longitude = lon, !.station_name = name])

\* lines 64-68: for sensor in station_data
RECURSIVE ForSensors(_, _, _)
ForSensors(station_data, n, s) ==
    IF n > Len(station_data) THEN s
    ELSE LET sensor == station_data[n]
             id == Item(sensor, ATTR_ID)
             name == Item(Item(sensor, "param"), "paramName")
             code == Item(Item(sensor, "param"), "paramCode")
         IN  IF IsExc(id) THEN Throw(s, id.v)
             ELSE IF IsExc(name) THEN Throw(s, name.v)
             ELSE IF IsExc(code) THEN Throw(s, code.v)
             ELSE ForSensors(station_data, n + 1,
                    [s EXCEPT !.data = Set(@, code.v, (ATTR_ID :> id) @@ (ATTR_NAME :> name))])

\* Begin with the cached station name ignored: every cycle asks the directory
Begin_AlwaysResolves(s) ==
    Await([s EXCEPT !.outcome = "running", !.reqs = <<>>, !.i = 0, !.replaced = <<>>],
          "get_stations", Url(URL_STATIONS, 0))

\* lines 40-41 and 59: update() up to its first await
Begin(s) ==
    LET s0 == [s EXCEPT !.outcome = "running", !.reqs = <<>>, !.i = 0, !.replaced = <<>>] IN
    IF ~Truthy(s.station_name) THEN Await(s0, "get_stations", Url(URL_STATIONS, 0))
    ELSE Await(s0, "get_station", Url(URL_STATION, station_id))

\* StationsStep without the test of line 52: the cycle goes on to the sensor
\* list though no entry gave a station name
StationsStep_GoesOnUnresolved(s, r) ==
    LET stations == async_get(r) IN
    IF IsExc(stations) THEN Throw(s, stations.v)
    ELSE IF ~Truthy(stations) THEN Return(s)
    ELSE LET s1 == ForStations(stations.v, 1, s) IN
         IF s1.pc = "idle" THEN s1
         ELSE Await(s1, "get_station", Url(URL_STATION, station_id))

\* StationsStep with the coordinates forgotten when the directory fetch fails
StationsStep_ForgetsOnFailure(s, r) ==
    LET stations == async_get(r)
        forgot == [s EXCEPT !.latitude = Null, !.longitude = Null] IN
    IF IsExc(stations) THEN Throw(forgot, stations.v)
    ELSE IF ~Truthy(stations) THEN Return(forgot)
    ELSE LET s1 == ForStations(stations.v, 1, s) IN
         IF s1.pc = "idle" THEN s1
         ELSE IF ~Truthy(s1.station_name) THEN Throw(s1, "NoStationError")
         ELSE Await(s1, "get_station", Url(URL_STATION, station_id))

\* lines 41-59: from the directory's answer to the request of the sensor list
StationsStep(s, r) ==
    LET stations == async_get(r) IN
    IF IsExc(stations) THEN Throw(s, stations.v)
    ELSE IF ~Truthy(stations) THEN Return(s)
    ELSE LET s1 == ForStations(stations.v, 1, s) IN
         IF s1.pc = "idle" THEN s1
         ELSE IF ~Truthy(s1.station_name) THEN Throw(s1, "NoStationError")
         ELSE Await(s1, "get_station", Url(URL_STATION, station_id))

\* lines 59-72: from the sensor list's answer to the first sensor's request
StationStep(s, r) ==
    LET station_data == async_get(r) IN
    IF IsExc(station_data) THEN Throw(s, station_data.v)
    ELSE IF ~Truthy(station_data) THEN Return(Clear(s))
    ELSE LET s1 == ForSensors(station_data.v, 1, s) IN
         IF s1.pc = "idle" THEN s1 ELSE Continue(s1, 0)

\* lines 84-87: except (ValueError, IndexError, TypeError)
SensorExcept(s, e) ==
    IF e \in {"ValueError", "IndexError", "TypeError"}
    THEN Return(Clear(s))
    ELSE Throw(s, e)

\* lines 72-87 and on: from a sensor's answer to the next request
SensorStep(s, r) ==
    LET sensor == s.data[s.i][1]
        sensor_data == async_get(r)
        first == Item(Index(Item(sensor_data, "values"), 0), ATTR_VALUE)
        second == Item(Index(Item(sensor_data, "values"), 1), ATTR_VALUE)
        store(x) == Continue([s EXCEPT !.data = SetField(@, sensor, ATTR_VALUE, x)], s.i)
    IN  IF IsExc(sensor_data) THEN Throw(s, sensor_data.v)
        ELSE IF IsExc(first) THEN SensorExcept(s, first.v)
        ELSE IF Truthy(first) THEN store(first)
        ELSE IF IsExc(second) THEN SensorExcept(s, second.v)
        ELSE IF Truthy(second) THEN store(second)
        ELSE SensorExcept(s, "ValueError")

\* lines 91-98: for sensor in self._data, the index of every pollutant
RECURSIVE ForIndexes(_, _, _)
ForIndexes(indexes, n, s) ==
    IF n > Len(s.data) THEN s
    ELSE LET sensor == s.data[n][1]
             index_level == ATTR_INDEX_LEVEL(replace(lower(sensor), "."))
             x == Lower(Item(Item(indexes, index_level), "indexLevelName"))
         IN  IF sensor = ATTR_AQI THEN ForIndexes(indexes, n + 1, s)
             ELSE IF IsExc(x) THEN Throw(s, x.v)
             ELSE ForIndexes(indexes, n + 1,
                    [s EXCEPT !.data = SetField(@, sensor, ATTR_INDEX, x)])

\* lines 89-107: from the index levels' answer to the end of update()
IndexesStep(s, r) ==
    LET indexes == async_get(r)
        s1 == ForIndexes(indexes, 1, s)
        s2 == [s1 EXCEPT !.data = Set(@, ATTR_AQI, (ATTR_NAME :> Str(ATTR_AQI)))]
        x == Lower(Item(Item(indexes, ATTR_INDEX_LEVEL(<<"s", "t">>)), "indexLevelName"))
        s3 == IF s1.pc = "idle" THEN s1
              ELSE IF IsExc(x) THEN Throw(s2, x.v)
              ELSE Return([s2 EXCEPT !.data = SetField(@, ATTR_AQI, ATTR_VALUE, x)])
    IN  IF IsExc(indexes) THEN Throw(s, indexes.v)
        ELSE IF s3.outcome \in {"IndexError", "TypeError"}
        THEN Return(Clear(s3))
        ELSE s3

\* the segment of update() that runs when the awaited request is answered by r
Step(s, r) ==
    CASE s.pc = "get_stations" -> StationsStep(s, r)
      [] s.pc = "get_station" -> StationStep(s, r)
      [] s.pc = "get_sensor" -> SensorStep(s, r)
      [] s.pc = "get_indexes" -> IndexesStep(s, r)

\* Gios.data and Gios.available
current_reading == data
available == Len(data) > 0

\* ------------------------------------------------------------ the state machine
\* Gios.__init__
Init ==
    /\ station_name = Null /\ latitude = Null /\ longitude = Null
    /\ data = Empty
    /\ pc = "idle" /\ i = 0 /\ outcome = "none" /\ reqs = <<>> /\ replaced = <<>>
    /\ upstream = <<>> /\ epochCycles = 0
    /\ before = Empty /\ atRequest = Empty /\ dirMatched = FALSE

Install(s) ==
    /\ station_name' = s.station_name /\ latitude' = s.latitude /\ longitude' = s.longitude
    /\ data' = s.data /\ pc' = s.pc /\ i' = s.i /\ outcome' = s.outcome /\ reqs' = s.reqs
    /\ replaced' = s.replaced
    /\ atRequest' = IF s.pc = "idle" THEN atRequest ELSE s.data

\* the request update() is suspended at
Pending == reqs[Len(reqs)]

\* An upstream that has not changed answers a URL as it answered it before.
Answers(url) == IF url \in DOMAIN upstream THEN {upstream[url]} ELSE Responses(url)

\* r is a decoded directory listing / one with an entry whose id is station_id
Listing(r) == r.kind = "reply" /\ r.status = HTTP_OK /\ r.json.t = "list"
HasEntry(r) == \E n \in DOMAIN r.json.v : PyEq(Item(r.json.v[n], ATTR_ID), Num(station_id))

\* the awaited request is answered and update() runs to its next await or its end
Answered ==
    /\ \E r \in Answers(Pending) :
        /\ upstream' = (Pending :> r) @@ upstream
        /\ Install(Step(Reader, r))
        /\ dirMatched' = (dirMatched \/ (pc = "get_stations" /\ Listing(r) /\ HasEntry(r)))
    /\ UNCHANGED <<epochCycles, before>>

\* the scheduler calls update(); it never overlaps two calls
Update ==
    /\ pc = "idle"
    /\ Install(Begin(Reader))
    /\ before' = data
    /\ epochCycles' = IF epochCycles < 2 THEN epochCycles + 1 ELSE 2
    /\ UNCHANGED <<upstream, dirMatched>>

StationsAnswered ==
    /\ pc = "get_stations"
    /\ Answered

StationAnswered ==
    /\ pc = "get_station"
    /\ Answered

SensorAnswered ==
    /\ pc = "get_sensor"
    /\ Answered

IndexesAnswered ==
    /\ pc = "get_indexes"
    /\ Answered

\* Between two cycles the upstream may change: every URL may then be answered
\* anew.  (No URL is requested twice within one cycle, so a change in the
\* middle of a cycle shows nothing more.)
UpstreamChanges ==
    /\ pc = "idle" /\ epochCycles > 0
    /\ upstream' = <<>> /\ epochCycles' = 0
    /\ UNCHANGED <<station_name, latitude, longitude, data, pc, i, outcome, reqs, replaced,
                   before, atRequest, dirMatched>>

Next ==
    \/ Update
    \/ StationsAnswered
    \/ StationAnswered
    \/ SensorAnswered
    \/ IndexesAnswered
    \/ UpstreamChanges

Spec == Init /\ [][Next]_vars

\* ------------------------------------------------------------ the claims
Idle == pc = "idle"

DirUrl == Url(URL_STATIONS, 0)
StationUrl == Url(URL_STATION, station_id)
IndexesUrl == Url(URL_INDEXES, station_id)

\* the last request of the cycle that has ended was url, and its answer is known
EndedAt(url) ==
    /\ Idle /\ Len(reqs) > 0 /\ reqs[Len(reqs)] = url
    /\ url \in DOMAIN upstream

IsOk(r) == r.kind = "reply" /\ r.status = HTTP_OK

\* every pollutant has id, name, value and index, and AQI is there with name and value
FullyPopulated(d) ==
    /\ ATTR_AQI \in Keys(d)
    /\ {ATTR_NAME, ATTR_VALUE} \subseteq DOMAIN Get(d, ATTR_AQI)
    /\ \A k \in Keys(d) \ {ATTR_AQI} :
          {ATTR_ID, ATTR_NAME, ATTR_VALUE, ATTR_INDEX} \subseteq DOMAIN Get(d, k)

\* C1: update() returns normally or raises NoStationError, nothing else; and it
\* raises NoStationError only when the directory listing was fetched and has
\* no entry for the configured station ID.
C1_OnlyNoStationError ==
    /\ outcome \in {"none", "running", "returned", "NoStationError"}
    /\ (Idle /\ outcome = "NoStationError" /\ DirUrl \in DOMAIN upstream) =>
          (Listing(upstream[DirUrl]) /\ ~HasEntry(upstream[DirUrl]))

\* C2: whenever no update() is in progress, the mapping is empty or fully
\* populated.
C2_EmptyOrFull == Idle => (data = Empty \/ FullyPopulated(data))

\* C3: at each of the four fetch steps a non-success status has exactly the
\* effect of a connection error: the same mapping, the same cached metadata
\* and the same outcome.
C3_StatusLikeConnectionError == ~Idle => Step(Reader, BadStatus) = Step(Reader, ClientError)

\* the key looked up for a pollutant code: lowercased, periods removed, "IndexLevel"
LevelKey(code) == ATTR_INDEX_LEVEL(replace(lower(code), "."))
StLevelKey == ATTR_INDEX_LEVEL(<<"s", "t">>)

\* the document lacks the level key of one of the codes or "stIndexLevel", or
\* one of these entries lacks indexLevelName
Faulty(doc, codes) ==
    \E k \in {LevelKey(c) : c \in codes} \cup {StLevelKey} :
        \/ k \notin DOMAIN doc.v
        \/ doc.v[k].t = "obj" /\ "indexLevelName" \notin DOMAIN doc.v[k].v

\* C4: when the first three steps succeed and the index-levels document lacks
\* a pollutant's level key, or "stIndexLevel", or an entry lacks
\* indexLevelName, update() returns without raising and the mapping is empty.
C4_IndexFaultClears ==
    (/\ EndedAt(IndexesUrl)
     /\ IsOk(upstream[IndexesUrl]) /\ upstream[IndexesUrl].json.t = "obj"
     /\ Faulty(upstream[IndexesUrl].json, Keys(atRequest) \ {ATTR_AQI}))
    => (outcome = "returned" /\ data = Empty)

\* C5: when the metadata is not cached and the directory is fetched with no
\* entry for the station ID (a listing of zero stations included), update()
\* raises NoStationError, the mapping stays empty, the metadata stays unset,
\* and no other request is issued in that cycle.
C5_NoMatchRaises ==
    (/\ Idle /\ Len(reqs) > 0 /\ reqs[1] = DirUrl /\ DirUrl \in DOMAIN upstream
     /\ Listing(upstream[DirUrl]) /\ ~HasEntry(upstream[DirUrl]))
    => (/\ outcome = "NoStationError"
        /\ data = Empty
        /\ station_name = Null /\ latitude = Null /\ longitude = Null
        /\ reqs = <<DirUrl>>)

\* the request answered last
LastAnswered == IF Idle THEN Len(reqs) ELSE Len(reqs) - 1

\* r is a sensor document with a sequence of values
HasValues(r) ==
    /\ IsOk(r) /\ r.json.t = "obj"
    /\ "values" \in DOMAIN r.json.v /\ r.json.v["values"].t = "list"

\* the selection rule: the first entry's value when present and non-null,
\* otherwise the second entry's, otherwise none (Null)
Present(vals, n) ==
    /\ n \in DOMAIN vals /\ vals[n].t = "obj"
    /\ ATTR_VALUE \in DOMAIN vals[n].v /\ vals[n].v[ATTR_VALUE].t # "null"
Selected(vals) ==
    IF Present(vals, 1) THEN vals[1].v[ATTR_VALUE]
    ELSE IF Present(vals, 2) THEN vals[2].v[ATTR_VALUE]
    ELSE Null

\* C6: for every values sequence, the value stored for the pollutant is the
\* first entry's value when it is non-null (0 included), otherwise the second
\* entry's, and when neither is usable the cycle ends with the mapping cleared.
C6_TwoSlotSelection ==
    \A n \in {LastAnswered} \cap DOMAIN reqs :
        (/\ reqs[n][1] = URL_SENSOR /\ reqs[n] \in DOMAIN upstream
         /\ HasValues(upstream[reqs[n]]))
        => LET sel == Selected(upstream[reqs[n]].json.v["values"].v) IN
           IF sel.t = "null"
           THEN Idle /\ outcome = "returned" /\ data = Empty
           ELSE /\ ~Idle
                /\ \E k \in Keys(data) \ {ATTR_AQI} :
                      /\ Get(data, k)[ATTR_ID] = Num(reqs[n][2])
                      /\ ATTR_VALUE \in DOMAIN Get(data, k)
                      /\ Get(data, k)[ATTR_VALUE] = sel

\* C7: after an update() that succeeds, the keys of the mapping are exactly the
\* pollutant codes of the sensor list fetched in that cycle plus AQI, every
\* sensor id is the one of that list, and only sensors of that list were queried.
C7_ReplacedWholesale ==
    (Idle /\ outcome = "returned" /\ data # Empty /\ StationUrl \in DOMAIN upstream)
    => LET list == upstream[StationUrl].json.v
           code(n) == Item(Item(list[n], "param"), "paramCode").v
       IN  /\ Keys(data) = {code(n) : n \in DOMAIN list} \cup {ATTR_AQI}
           /\ \A k \in Keys(data) \ {ATTR_AQI} :
                 \E n \in DOMAIN list : code(n) = k /\ Item(list[n], ATTR_ID) = Get(data, k)[ATTR_ID]
           /\ \A m \in DOMAIN reqs : reqs[m][1] = URL_SENSOR =>
                 \E n \in DOMAIN list : Item(list[n], ATTR_ID) = Num(reqs[m][2])

\* the document has, for every code and for "stIndexLevel", an entry with a name
Complete(doc, codes) ==
    \A k \in {LevelKey(c) : c \in codes} \cup {StLevelKey} :
        /\ k \in DOMAIN doc.v /\ doc.v[k].t = "obj"
        /\ "indexLevelName" \in DOMAIN doc.v[k].v
        /\ doc.v[k].v["indexLevelName"].t = "str"

\* the step that requested url succeeded on the answer r
StepOk(url, r) ==
    CASE url[1] = URL_STATIONS -> Listing(r) /\ HasEntry(r)
      [] url[1] = URL_STATION -> IsOk(r) /\ r.json.t = "list" /\ Len(r.json.v) > 0
      [] url[1] = URL_SENSOR -> HasValues(r) /\ Selected(r.json.v["values"].v).t # "null"
      [] url[1] = URL_INDEXES ->
            IsOk(r) /\ r.json.t = "obj" /\ Complete(r.json, Keys(atRequest) \ {ATTR_AQI})

\* every step the cycle that has ended took succeeded: the station is resolved
\* and every request was answered with a non-empty sensor list, a usable value
\* or a complete index-levels document
CycleSucceeded ==
    /\ Truthy(station_name)
    /\ \A n \in DOMAIN reqs : StepOk(reqs[n], upstream[reqs[n]])

\* C8: has_data() is exactly 'the mapping is non-empty'; and whenever update()
\* returns without raising, has_data() is true if and only if every step of
\* that cycle succeeded, and otherwise current_reading() is empty.
C8_HasDataIffSucceeded ==
    /\ available <=> (data # Empty)
    /\ (Idle /\ outcome = "returned" /\ epochCycles > 0) =>
          /\ available <=> CycleSucceeded
          /\ ~CycleSucceeded => current_reading = Empty

C10_Idempotent == (Idle /\ epochCycles = 2) => data = before

\* update() has returned from a cycle that completed all four steps
Succeeded == Idle /\ outcome = "returned" /\ data # Empty

\* the characters of s are all lowercase already
IsLower(s) == \A n \in DOMAIN s : s[n] \notin {"A", "B", "D", "G", "I", "L", "M", "N", "O", "P", "Q", "S"}

\* C11: after every successful cycle every key but AQI has id, name, a
\* non-null value and a non-null lowercase index, and the AQI entry has exactly
\* the fields name ("AQI") and value (the lowercased overall level name).
C11_SuccessfulMappingShape ==
    Succeeded =>
        /\ \A k \in Keys(data) \ {ATTR_AQI} :
              /\ DOMAIN Get(data, k) = {ATTR_ID, ATTR_NAME, ATTR_VALUE, ATTR_INDEX}
              /\ Get(data, k)[ATTR_VALUE].t # "null"
              /\ Get(data, k)[ATTR_INDEX].t = "str" /\ IsLower(Get(data, k)[ATTR_INDEX].v)
        /\ ATTR_AQI \in Keys(data)
        /\ DOMAIN Get(data, ATTR_AQI) = {ATTR_NAME, ATTR_VALUE}
        /\ Get(data, ATTR_AQI)[ATTR_NAME] = Str(<<"A", "Q", "I">>)
        /\ Get(data, ATTR_AQI)[ATTR_VALUE].t = "str" /\ IsLower(Get(data, ATTR_AQI)[ATTR_VALUE].v)
        /\ IndexesUrl \in DOMAIN upstream =>
              Get(data, ATTR_AQI)[ATTR_VALUE] = Str(<<"b", "a", "d">>)

\* a successful cycle over two pollutants whose levels the upstream spells "Good" and "Bad"
C11_Witness ==
    /\ Succeeded /\ Cardinality(Keys(data)) = 3
    /\ IndexesUrl \in DOMAIN upstream
    /\ Get(data, PM10)[ATTR_INDEX] = Str(<<"g", "o", "o", "d">>)

\* update() is suspended at a fetch point after the sensor-list response
AfterSensorList == pc \in {"get_sensor", "get_indexes"}

\* C12: a consumer that calls current_reading() or has_data() while update()
\* is suspended between the sensor-list response and the end of the cycle never
\* sees a partially populated mapping: it sees the previous complete mapping
\* or the empty one.
C12_NoPartialMidCycle ==
    AfterSensorList =>
        \/ ~available /\ current_reading = Empty
        \/ available /\ current_reading = before /\ FullyPopulated(before)

\* the values URLs of the keys of d other than AQI, in the order of d
RECURSIVE SensorUrls(_)
SensorUrls(d) ==
    IF d = Empty THEN <<>>
    ELSE IF d[1][1] = ATTR_AQI THEN SensorUrls(Tail(d))
    ELSE <<Url(URL_SENSOR, d[1][2][ATTR_ID].v)>> \o SensorUrls(Tail(d))

\* the requests of the cycle after its directory and sensor-list requests
AfterStation ==
    LET first == IF reqs[1] = DirUrl THEN 3 ELSE 2 IN
    IF Len(reqs) < first THEN <<>> ELSE SubSeq(reqs, first, Len(reqs))

\* the values requests among them: all but a final index-levels request
ValuesReqs ==
    IF AfterStation # <<>> /\ AfterStation[Len(AfterStation)] = IndexesUrl
    THEN SubSeq(AfterStation, 1, Len(AfterStation) - 1)
    ELSE AfterStation

\* the log of the cycle's requests has the order of the four steps
InOrder ==
    /\ reqs[1] \in {DirUrl, StationUrl}
    /\ Len(reqs) > 1 /\ reqs[1] = DirUrl => reqs[2] = StationUrl
    /\ ValuesReqs = SubSeq(SensorUrls(atRequest), 1, Len(ValuesReqs))
    /\ ValuesReqs # AfterStation =>
          /\ ValuesReqs = SensorUrls(atRequest)
          /\ \A n \in DOMAIN ValuesReqs :
                ValuesReqs[n] \in DOMAIN upstream =>
                    StepOk(ValuesReqs[n], upstream[ValuesReqs[n]])
    /\ \A n \in 1..(Len(reqs) - 1) :
          reqs[n] \in DOMAIN upstream => StepOk(reqs[n], upstream[reqs[n]])

\* C13: within one cycle the requests are issued strictly in order: the
\* directory (only when the metadata is not cached), the sensor list, one
\* values request per key of the mapping other than AQI, then exactly one
\* index-levels request; at most one request is in flight, the index-levels
\* request is issued only after every sensor has yielded a usable value, and
\* after the first step that fails no further request is issued.
C13_RequestOrder ==
    [][/\ reqs' # <<>> => InOrder'
       /\ (Idle /\ ~Idle') =>
             reqs' = <<IF Truthy(station_name) THEN StationUrl ELSE DirUrl>>
       /\ ~Idle =>
             \/ /\ Idle' /\ reqs' = reqs
             \/ /\ ~Idle' /\ Len(reqs') = Len(reqs) + 1
                /\ SubSeq(reqs', 1, Len(reqs)) = reqs
                /\ Pending \in DOMAIN upstream'
                /\ StepOk(Pending, upstream'[Pending])]_vars

\* a cycle that asked the directory, the sensor list, two sensors and the
\* index levels
C13_Witness ==
    /\ Idle /\ Len(reqs) = 5 /\ reqs[1] = DirUrl /\ reqs[5] = IndexesUrl
    /\ Len(ValuesReqs) = 2

\* the reader's mapping and cached metadata
Kept == <<data, station_name, latitude, longitude>>

\* C14: when the metadata is not cached and the directory fetch fails with a
\* transport error or a non-success status, the cycle ends with the mapping and
\* the cached name, latitude and longitude exactly as they were before the
\* cycle, and no sensor-list, values or index-levels request is issued.
C14_DirectoryFailureChangesNothing ==
    [][/\ (Idle /\ ~Idle') => Kept' = Kept /\ before' = data
       /\ (pc = "get_stations" /\ upstream'[DirUrl] \in {ClientError, BadStatus}) =>
             /\ Idle' /\ Kept' = Kept /\ data' = before
             /\ reqs' = <<DirUrl>>]_vars

\* the directory answered with a non-success status to a reader that had kept
\* a latitude from an earlier cycle
C14_Witness ==
    /\ Idle /\ reqs = <<DirUrl>> /\ latitude # Null
    /\ DirUrl \in DOMAIN upstream /\ upstream[DirUrl] = BadStatus

\* the cached station metadata
Metadata == <<station_name, latitude, longitude>>

\* the metadata is that of one entry of the directory listing for station_id
FromOneEntry ==
    /\ station_name # Null /\ latitude # Null /\ longitude # Null
    /\ (DirUrl \in DOMAIN upstream /\ Listing(upstream[DirUrl])) =>
          \E n \in DOMAIN upstream[DirUrl].json.v :
              LET station == upstream[DirUrl].json.v[n] IN
              /\ PyEq(Item(station, ATTR_ID), Num(station_id))
              /\ Metadata = <<Item(station, "stationName"), Item(station, "gegrLat"),
                              Item(station, "gegrLon")>>

\* C15: once a cycle has resolved the station (cached name, latitude and
\* longitude from the matching directory entry), no later cycle changes any of
\* the three; and in every reachable state the three are either all unset or
\* all set from the same directory entry.
C15_MetadataResolvedOnceAndWhole ==
    [][/\ Truthy(station_name) => Metadata' = Metadata
       /\ Metadata' = <<Null, Null, Null>> \/ FromOneEntry']_vars

\* the keys of the index-levels document, written out
Pm10IndexLevel == <<"p", "m", "1", "0", "I", "n", "d", "e", "x", "L", "e", "v", "e", "l">>
Pm25IndexLevel == <<"p", "m", "2", "5", "I", "n", "d", "e", "x", "L", "e", "v", "e", "l">>
No2IndexLevel == <<"n", "o", "2", "I", "n", "d", "e", "x", "L", "e", "v", "e", "l">>
StIndexLevel == <<"s", "t", "I", "n", "d", "e", "x", "L", "e", "v", "e", "l">>
ExpectedKey(code) == IF code = PM10 THEN Pm10IndexLevel ELSE Pm25IndexLevel

\* the level names of the upstream, lowercased, written out
Lowercased(name) == IF name = Good THEN <<"g", "o", "o", "d">> ELSE <<"b", "a", "d">>

\* doc has under key k an entry with a level name
Named(doc, k) ==
    /\ k \in DOMAIN doc.v /\ doc.v[k].t = "obj"
    /\ "indexLevelName" \in DOMAIN doc.v[k].v
    /\ doc.v[k].v["indexLevelName"].t = "str"

\* C16: the key looked up in the index-levels document for a pollutant is its
\* code lowercased, periods removed, followed by "IndexLevel" ("PM2.5" ->
\* "pm25IndexLevel", "NO2" -> "no2IndexLevel"); the index stored is the
\* lowercased indexLevelName found under exactly that key, and the overall
\* value comes from the fixed key "stIndexLevel".
C16_IndexLookup ==
    /\ ATTR_INDEX_LEVEL(replace(lower(<<"N", "O", "2">>), ".")) = No2IndexLevel
    /\ pc = "get_indexes" =>
          \A r \in Responses(IndexesUrl) :
              LET s == Step(Reader, r)
                  codes == Keys(data) \ {ATTR_AQI}
                  looked == {ExpectedKey(c) : c \in codes} \cup {StIndexLevel}
              IN  (IsOk(r) /\ r.json.t = "obj") =>
                     IF \A k \in looked : Named(r.json, k)
                     THEN /\ s.outcome = "returned"
                          /\ \A c \in codes :
                                Get(s.data, c)[ATTR_INDEX] =
                                   Str(Lowercased(r.json.v[ExpectedKey(c)].v["indexLevelName"].v))
                          /\ Get(s.data, ATTR_AQI)[ATTR_VALUE] =
                                Str(Lowercased(r.json.v[StIndexLevel].v["indexLevelName"].v))
                     ELSE s.outcome # "returned" \/ s.data = Empty

\* a cycle has read the levels of PM10 and PM2.5 from a document that names
\* them under pm10IndexLevel and pm25IndexLevel
C16_Witness ==
    /\ Idle /\ reqs # <<>> /\ reqs[Len(reqs)] = IndexesUrl /\ {PM10, PM25} \subseteq Keys(data)
    /\ IndexesUrl \in DOMAIN upstream /\ IsOk(upstream[IndexesUrl])
    /\ upstream[IndexesUrl].json.t = "obj"
    /\ \A k \in {Pm10IndexLevel, Pm25IndexLevel, StIndexLevel} : Named(upstream[IndexesUrl].json, k)
    /\ Get(data, PM25)[ATTR_INDEX] = Str(<<"g", "o", "o", "d">>)

\* the pollutant codes of a well-formed sensor list
Codes(list) == {list[n].v["param"].v["paramCode"].v : n \in DOMAIN list}

\* r is a non-empty sensor list of entries with an id and a parameter
WholeSensorList(r) ==
    /\ IsOk(r) /\ r.json.t = "list" /\ Len(r.json.v) > 0
    /\ \A n \in DOMAIN r.json.v : {ATTR_ID, "param"} \subseteq DOMAIN r.json.v[n].v

\* r is a successful answer to url with well-formed data: a directory with a
\* whole entry for station_id, a non-empty sensor list of whole entries, a
\* values document with a non-null value in its first two entries, an
\* index-levels document naming a level for every listed sensor and the station
WellFormed(url, r) ==
    CASE url[1] = URL_STATIONS ->
            /\ Listing(r)
            /\ \E n \in DOMAIN r.json.v :
                  /\ PyEq(Item(r.json.v[n], ATTR_ID), Num(station_id))
                  /\ {"stationName", "gegrLat", "gegrLon"} \subseteq DOMAIN r.json.v[n].v
                  /\ Truthy(r.json.v[n].v["stationName"])
            /\ \A n \in DOMAIN r.json.v :
                  {ATTR_ID, "stationName", "gegrLat", "gegrLon"} \subseteq DOMAIN r.json.v[n].v
      [] url[1] = URL_STATION -> WholeSensorList(r)
      [] url[1] = URL_SENSOR -> HasValues(r) /\ Selected(r.json.v["values"].v).t # "null"
      [] url[1] = URL_INDEXES ->
            /\ IsOk(r) /\ r.json.t = "obj"
            /\ WholeSensorList(upstream[StationUrl])
            /\ Complete(r.json, Codes(upstream[StationUrl].json.v))

\* the cycle has ended and every request it made was answered well
HealthyCycle ==
    /\ Idle /\ epochCycles > 0
    /\ \A n \in DOMAIN reqs : WellFormed(reqs[n], upstream[reqs[n]])

\* C17: a cycle in which every endpoint answers successfully with well-formed
\* data for the station's current sensor list ends with a non-empty, fully
\* populated mapping, however earlier cycles ended.
C17_HealthyCycleRecovers ==
    HealthyCycle => (outcome = "returned" /\ available /\ FullyPopulated(data))

\* what the dict that self._data named when update() was called holds now
HeldSince == IF replaced = <<>> THEN data ELSE replaced[1]

\* C18: a mapping obtained from current_reading() before an update() is not
\* altered by that later update().
C18_SnapshotUnaltered == HeldSince = before

\* C19: in every reachable state, mid-cycle and after update() has raised
\* included, a non-empty mapping implies that the station name is cached; so a
\* cycle that ends at the directory step, by an abort or by NoStationError,
\* leaves has_data() false.
C19_DataImpliesResolved ==
    /\ available => Truthy(station_name)
    /\ (Idle /\ (outcome = "NoStationError" \/ (reqs # <<>> /\ Pending = DirUrl))) => ~available

\* update() has raised and left a non-empty mapping
C19_Witness ==
    /\ Idle /\ outcome \notin {"none", "returned"} /\ available
    /\ station_name = Str(<<"S">>)

====
